---- MODULE Spec2Model ----
(***************************************************************************)
(* Model of generate_icons.py: main() reads the asset-catalog manifest     *)
(* (Contents.json), derives a pixel size for every entry and calls the     *)
(* external `sips` tool through resize_image().                            *)
(*                                                                         *)
(* Strings are sequences of one-character strings.  Numbers parsed by      *)
(* float() are kept as fixed-point integers in units of 1/Unit; the        *)
(* inputs drawn below have fraction digit 0 or 5, so every float value and *)
(* every product is exact in binary floating point.                        *)
(***************************************************************************)
EXTENDS Integers, Sequences, FiniteSets, TLC

VARIABLES
    sourceExists,   \* os.path.exists(SOURCE_ICON)
    manifestFile,   \* state of Contents.json on disk
    images,         \* the "images" list stored in Contents.json
    deterministic,  \* the external tool answers equal calls equally
    pc,             \* position of main()
    i,              \* index of the manifest entry the for loop is at
    cur,            \* arguments of the sips invocation in flight
    stdout,         \* lines printed by this run
    exc,            \* uncaught exception that ended this run
    calls,          \* sips invocations of this run, in order, with outcome
    files,          \* generated files in DEST_DIR, each with its path and pixel size
    memo,           \* outcomes the tool has given, by arguments
    run,            \* number of the current run of the script
    prevStdout,     \* stdout of the previous run
    prevFiles       \* files in DEST_DIR after the previous run

vars == <<sourceExists, manifestFile, images, deterministic, pc, i, cur,
          stdout, exc, calls, files, memo, run, prevStdout, prevFiles>>

env == <<sourceExists, manifestFile, images, deterministic>>

----------------------------------------------------------------------------
(* Bounds *)

MaxLen == 2
MaxRuns == 2

----------------------------------------------------------------------------
(* Configuration *)

SOURCE_ICON == "../icon.png"
DEST_DIR == "../PDFScanner/Assets.xcassets/AppIcon.appiconset"

Unit == 10
NoArgs == [dest |-> <<>>, width |-> 0, height |-> 0]

----------------------------------------------------------------------------
(* Strings *)

Digits == <<"0", "1", "2", "3", "4", "5", "6", "7", "8", "9">>
IsDigit(c) == \E d \in 1..10 : Digits[d] = c
DigitVal(c) == (CHOOSE d \in 1..10 : Digits[d] = c) - 1

RECURSIVE IntOf(_)
IntOf(s) == IF s = <<>> THEN 0
            ELSE IntOf(SubSeq(s, 1, Len(s) - 1)) * 10 + DigitVal(s[Len(s)])

AllDigits(s) == \A k \in 1..Len(s) : IsDigit(s[k])

\* str.split(sep): the pieces between the occurrences of sep
RECURSIVE Split(_, _)
Split(s, sep) ==
    IF \A k \in 1..Len(s) : s[k] # sep THEN <<s>>
    ELSE LET p == CHOOSE k \in 1..Len(s) :
                      s[k] = sep /\ \A j \in 1..(k - 1) : s[j] # sep
         IN  <<SubSeq(s, 1, p - 1)>> \o Split(SubSeq(s, p + 1, Len(s)), sep)

\* str.replace(c, ''): every occurrence of c removed
Remove(s, c) == SelectSeq(s, LAMBDA ch : ch # c)

ValueError == [ok |-> FALSE, v |-> 0]
Float(n) == [ok |-> TRUE, v |-> n]

\* float(s) for decimal literals "d+", "d+.", ".d", "d+.d" (one fraction
\* digit); anything else over the alphabet used here raises ValueError.
\* The value is in units of 1/Unit.
ParseFloat(s) ==
    LET parts == Split(s, ".")
    IN  IF Len(parts) = 1
        THEN IF Len(s) > 0 /\ AllDigits(s) THEN Float(IntOf(s) * Unit)
             ELSE ValueError
        ELSE IF /\ Len(parts) = 2
                /\ AllDigits(parts[1]) /\ AllDigits(parts[2])
                /\ Len(parts[1]) + Len(parts[2]) > 0
                /\ Len(parts[2]) <= 1
             THEN Float(IntOf(parts[1]) * Unit
                        + (IF parts[2] = <<>> THEN 0 ELSE IntOf(parts[2])))
             ELSE ValueError

----------------------------------------------------------------------------
(* Manifest entries: dictionaries from keys to strings *)

\* Mutant: only an absent key counts, an empty string does not
FalsyNoneOnly(image, key) == key \notin DOMAIN image

\* `not image.get(key)`: the key is absent (None) or its string is empty
Falsy(image, key) == key \notin DOMAIN image \/ image[key] = <<>>

\* width_pt, height_pt = map(float, size_str.split('x'))
ParseSize(size_str) ==
    LET parts == Split(size_str, "x")
    IN  IF Len(parts) # 2 THEN ValueError
        ELSE LET w == ParseFloat(parts[1])
                 h == ParseFloat(parts[2])
             IN  IF w.ok /\ h.ok THEN [ok |-> TRUE, v |-> <<w.v, h.v>>]
                 ELSE ValueError

\* scale = float(scale_str.replace('x', ''))
ParseScale(scale_str) == ParseFloat(Remove(scale_str, "x"))

\* int(pt * scale): the product, in units of 1/Unit^2, truncated
Pixel(pt, scale) == (pt * scale) \div (Unit * Unit)

\* os.path.join(DEST_DIR, filename)
DestPath(filename) == <<DEST_DIR>> \o filename

CallArgs(image) ==
    LET size == ParseSize(image.size).v
        scale == ParseScale(image.scale).v
    IN  [dest |-> DestPath(image.filename),
         width |-> Pixel(size[1], scale),
         height |-> Pixel(size[2], scale)]

----------------------------------------------------------------------------
(* Inputs *)

Entry(filename, size, scale) ==
    [k \in {"filename", "size", "scale"} |->
        CASE k = "filename" -> filename [] k = "size" -> size [] OTHER -> scale]

Without(image, key) == [k \in DOMAIN image \ {key} |-> image[k]]

S20x20 == <<"2", "0", "x", "2", "0">>
S29x29 == <<"2", "9", "x", "2", "9">>
S835 == <<"8", "3", ".", "5", "x", "8", "3", ".", "5">>
S55 == <<"5", ".", "5", "x", "5", ".", "5">>
S05x1 == <<"0", ".", "5", "x", "1">>
X1 == <<"1", "x">>
X2 == <<"2", "x">>
X3 == <<"3", "x">>
X15 == <<"1", ".", "5", "x">>

\* Entries of a manifest: complete ones, asset-catalog slots that lack a
\* key, and entries whose size or scale string is not of the expected form.
Entries ==
    { Entry(<<"a">>, S20x20, X2),
      Entry(<<"b">>, S55, X3),
      Entry(<<"a">>, S29x29, X3),
      Without(Entry(<<"a">>, S20x20, X2), "filename"),
      Entry(<<>>, S20x20, X2),
      Without(Entry(<<"b">>, S20x20, X1), "size"),
      Without(Entry(<<"b">>, S20x20, X1), "scale"),
      Entry(<<"b">>, <<"2", "0">>, X2),
      Entry(<<"b">>, S20x20, <<"2", "y">>),
      Without(Entry(<<"a">>, <<"a", "x", "b">>, X2), "filename") }

Manifests == UNION { [1..n -> Entries] : n \in 0..MaxLen }

SizeStrings ==
    { S20x20, S29x29, S835, S55, S05x1, <<"2", "0">>, <<"a", "x", "b">>,
      <<"2", "0", "x", "2", "0", "x", "2", "0">>, <<"1", "6", ".", "5", "x", "0", ".", "5">> }
ScaleStrings ==
    { X1, X2, X3, X15, <<"2">>, <<"x", "2">>, <<"2", "y">>, <<"x">>, <<"0", ".", "5", "x">> }

\* subprocess.run(..., check=True): the tool exits 0, exits non-zero
\* (CalledProcessError), or cannot be started (OSError)
Outcomes == {"ok", "CalledProcessError", "OSError"}

----------------------------------------------------------------------------
(* Printed lines *)

Line(kind, args, detail) ==
    [kind |-> kind, dest |-> args.dest, width |-> args.width,
     height |-> args.height, detail |-> detail]

SourceNotFoundLine == Line("Error: Source icon not found", NoArgs, SOURCE_ICON)
ManifestNotFoundLine == Line("Error: Contents.json not found", NoArgs, DEST_DIR)
ProcessingLine == Line("Processing icons", NoArgs, SOURCE_ICON)
CompleteLine == Line("Icon generation complete!", NoArgs, "")
GeneratedLine(args) == Line("Generated", args, "")
\* Mutant: the failure line does not name the destination
ErrorLineNoDest(args, e) == Line("Error generating", NoArgs, e)
ErrorLine(args, e) == Line("Error generating", args, e)

----------------------------------------------------------------------------
(* State after the script is started for the first time *)

TypeEnv ==
    /\ sourceExists \in BOOLEAN
    /\ manifestFile \in {"missing", "unparseable", "no images key", "ok"}
    /\ deterministic \in BOOLEAN

Fresh ==
    /\ pc = "check_source"
    /\ i = 1
    /\ cur = NoArgs
    /\ stdout = <<>>
    /\ exc = "none"
    /\ calls = <<>>
    /\ files = {}
    /\ memo = <<>>
    /\ run = 1
    /\ prevStdout = <<>>
    /\ prevFiles = {}

Init ==
    /\ TypeEnv
    /\ images \in Manifests
    /\ manifestFile # "ok" => images = <<>>
    /\ Fresh

\* One complete entry per size and scale string
InitPixel ==
    /\ sourceExists = TRUE
    /\ manifestFile = "ok"
    /\ deterministic \in BOOLEAN
    /\ \E size \in SizeStrings, scale \in ScaleStrings :
           images = <<Entry(<<"a">>, size, scale)>>
    /\ Fresh

----------------------------------------------------------------------------
(* main() *)

\* Mutant: the return after the error message is missing
CheckSourceNoReturn ==
    /\ pc = "check_source"
    /\ stdout' = IF ~sourceExists THEN Append(stdout, SourceNotFoundLine) ELSE stdout
    /\ pc' = "check_manifest"
    /\ UNCHANGED <<env, i, cur, exc, calls, files, memo, run, prevStdout, prevFiles>>

\* if not os.path.exists(SOURCE_ICON): print(...); return
CheckSource ==
    /\ pc = "check_source"
    /\ IF ~sourceExists
       THEN /\ stdout' = Append(stdout, SourceNotFoundLine)
            /\ pc' = "returned"
       ELSE /\ pc' = "check_manifest"
            /\ UNCHANGED stdout
    /\ UNCHANGED <<env, i, cur, exc, calls, files, memo, run, prevStdout, prevFiles>>

\* if not os.path.exists(CONTENTS_JSON_PATH): print(...); return
CheckManifest ==
    /\ pc = "check_manifest"
    /\ IF manifestFile = "missing"
       THEN /\ stdout' = Append(stdout, ManifestNotFoundLine)
            /\ pc' = "returned"
       ELSE /\ pc' = "load"
            /\ UNCHANGED stdout
    /\ UNCHANGED <<env, i, cur, exc, calls, files, memo, run, prevStdout, prevFiles>>

\* contents.get("images", [])
ImagesOf(file, list) == IF file = "ok" THEN list ELSE <<>>

\* contents = json.load(f); print("Processing icons ...")
LoadManifest ==
    /\ pc = "load"
    /\ IF manifestFile = "unparseable"
       THEN /\ exc' = "JSONDecodeError"
            /\ pc' = "crashed"
            /\ UNCHANGED stdout
       ELSE /\ stdout' = Append(stdout, ProcessingLine)
            /\ pc' = "loop"
            /\ UNCHANGED exc
    /\ i' = 1
    /\ UNCHANGED <<env, cur, calls, files, memo, run, prevStdout, prevFiles>>

Contents == ImagesOf(manifestFile, images)

\* One iteration of the for loop up to the call of subprocess.run
LoopBody ==
    /\ pc = "loop"
    /\ i <= Len(Contents)
    /\ LET image == Contents[i]
       IN  IF Falsy(image, "filename") \/ Falsy(image, "size") \/ Falsy(image, "scale")
           THEN /\ i' = i + 1
                /\ UNCHANGED <<pc, cur, exc>>
           ELSE IF ~ParseSize(image.size).ok \/ ~ParseScale(image.scale).ok
           THEN /\ exc' = "ValueError"
                /\ pc' = "crashed"
                /\ UNCHANGED <<i, cur>>
           ELSE /\ cur' = CallArgs(image)
                /\ pc' = "sips"
                /\ UNCHANGED <<i, exc>>
    /\ UNCHANGED <<env, stdout, calls, files, memo, run, prevStdout, prevFiles>>

Known(args) == \E k \in 1..Len(memo) : memo[k].args = args
Answer(args) == (CHOOSE k \in 1..Len(memo) : memo[k].args = args)

\* What the except clause of resize_image catches
Caught(outcome) == outcome = "CalledProcessError"

\* Mutant: an existing file at the same path is kept beside the new one
WriteFileKeep(fs, args) == fs \cup {args}

\* Mutant: an existing path is not overwritten, a numbered copy is written
WriteFileNumbered(fs, args) ==
    IF \E f \in fs : f.dest = args.dest
    THEN fs \cup {[args EXCEPT !.dest = @ \o <<"1">>]}
    ELSE fs \cup {args}

\* Writing dest: an existing file at the same path is replaced
WriteFile(fs, args) == {f \in fs : f.dest # args.dest} \cup {args}

\* resize_image(): subprocess.run returns or raises
Resize(outcome) ==
    /\ pc = "sips"
    /\ deterministic /\ Known(cur) => outcome = memo[Answer(cur)].outcome
    /\ calls' = Append(calls, [index |-> i, args |-> cur, outcome |-> outcome])
    /\ memo' = IF Known(cur) THEN memo
               ELSE Append(memo, [args |-> cur, outcome |-> outcome])
    /\ IF outcome = "ok"
       THEN /\ files' = WriteFile(files, cur)
            /\ stdout' = Append(stdout, GeneratedLine(cur))
            /\ pc' = "loop"
            /\ i' = i + 1
            /\ UNCHANGED exc
       ELSE IF Caught(outcome)
       THEN /\ stdout' = Append(stdout, ErrorLine(cur, outcome))
            /\ pc' = "loop"
            /\ i' = i + 1
            /\ UNCHANGED <<files, exc>>
       ELSE /\ exc' = outcome
            /\ pc' = "crashed"
            /\ UNCHANGED <<files, stdout, i>>
    /\ cur' = NoArgs
    /\ UNCHANGED <<env, run, prevStdout, prevFiles>>

\* print("Icon generation complete!")
Finish ==
    /\ pc = "loop"
    /\ i > Len(Contents)
    /\ stdout' = Append(stdout, CompleteLine)
    /\ pc' = "done"
    /\ UNCHANGED <<env, i, cur, exc, calls, files, memo, run, prevStdout, prevFiles>>

Terminated == pc \in {"returned", "crashed", "done"}

\* The script is started again on the same manifest, source and DEST_DIR
Rerun ==
    /\ Terminated
    /\ run < MaxRuns
    /\ run' = run + 1
    /\ prevStdout' = stdout
    /\ prevFiles' = files
    /\ pc' = "check_source"
    /\ i' = 1
    /\ cur' = NoArgs
    /\ stdout' = <<>>
    /\ exc' = "none"
    /\ calls' = <<>>
    /\ UNCHANGED <<env, files, memo>>

Next ==
    \/ CheckSource
    \/ CheckManifest
    \/ LoadManifest
    \/ LoopBody
    \/ \E outcome \in Outcomes : Resize(outcome)
    \/ Finish
    \/ Rerun

Spec == Init /\ [][Next]_vars

SpecPixel == InitPixel /\ [][Next]_vars

----------------------------------------------------------------------------
(* Vocabulary of the properties *)

Present(image, key) == key \in DOMAIN image /\ Len(image[key]) > 0
Renderable(image) ==
    Present(image, "filename") /\ Present(image, "size") /\ Present(image, "scale")
WellFormed(image) ==
    Renderable(image) /\ ParseSize(image.size).ok /\ ParseScale(image.scale).ok
Indices == 1..Len(Contents)
Called(j) == \E k \in 1..Len(calls) : calls[k].index = j
PastPreconditions == pc \in {"loop", "sips", "done"} \/ (pc = "crashed" /\ exc # "JSONDecodeError")
PerItem(line) == line.kind \in {"Generated", "Error generating"}
PerItemLines == SelectSeq(stdout, PerItem)
Count(seq, Test(_)) == Len(SelectSeq(seq, Test))
IsOk(call) == call.outcome = "ok"
IsFailed(call) == call.outcome # "ok"
IsGenerated(line) == line.kind = "Generated"
IsError(line) == line.kind = "Error generating"
HasFilename(j) == Present(Contents[j], "filename")
NamedEntries == {j \in Indices : HasFilename(j)}
RenderableEntries == {j \in Indices : Renderable(Contents[j])}
AllSucceeded == \A k \in 1..Len(calls) : IsOk(calls[k])

----------------------------------------------------------------------------
(* C1: every failed resize invocation, whether the tool exits non-zero or
   the invocation raises, is printed as a failure naming its destination
   file, and the run still attempts every later complete entry and ends
   with the completion notice. *)
C1_FailureIsolation ==
    \A k \in 1..Len(calls) :
        IsFailed(calls[k]) =>
            /\ \E l \in 1..Len(stdout) :
                   IsError(stdout[l]) /\ stdout[l].dest = calls[k].args.dest
            /\ Terminated =>
                   /\ pc = "done"
                   /\ \A j \in Indices :
                          j > calls[k].index /\ Renderable(Contents[j]) => Called(j)

\* px is an integer nearest to product / Unit^2 (a tie may go either way)
IsNearest(px, product) ==
    LET d == px * Unit * Unit - product
    IN  2 * (IF d < 0 THEN -d ELSE d) <= Unit * Unit

(* C2: the pixel width and height passed to the tool are the products of
   the point size and the scale factor rounded to the nearest integer;
   20x20 at 2x is 40x40, 29x29 at 3x is 87x87, 83.5x83.5 at 2x is 167x167. *)
C2_PixelRounded ==
    \A k \in 1..Len(calls) :
        LET image == Contents[calls[k].index]
            size == ParseSize(image.size).v
            scale == ParseScale(image.scale).v
        IN  /\ IsNearest(calls[k].args.width, size[1] * scale)
            /\ IsNearest(calls[k].args.height, size[2] * scale)
            /\ image.size = S20x20 /\ image.scale = X2 => calls[k].args.width = 40
            /\ image.size = S29x29 /\ image.scale = X3 => calls[k].args.width = 87
            /\ image.size = S835 /\ image.scale = X2 => calls[k].args.width = 167

(* C3 as stated: after a run in which every resize succeeded, the number of
   files written equals the number of entries with a non-empty filename. *)
C3_OneFilePerFilename ==
    pc = "done" /\ AllSucceeded => Len(calls) = Cardinality(NamedEntries)

(* C3: after a run that reaches the completion notice with every resize
   succeeding, exactly one file was written per entry that has a non-empty
   filename, size and scale, none for the other entries, and DEST_DIR
   holds one file per distinct filename of those entries, of the pixel
   size of the last entry naming it. *)
C3_OneFilePerRenderable ==
    pc = "done" /\ AllSucceeded =>
        /\ Len(calls) = Cardinality(RenderableEntries)
        /\ \A j \in Indices : Called(j) <=> j \in RenderableEntries
        /\ {f.dest : f \in files}
               = {DestPath(Contents[j].filename) : j \in RenderableEntries}
        /\ Cardinality(files)
               = Cardinality({Contents[j].filename : j \in RenderableEntries})
        /\ \A j \in RenderableEntries :
               (\A m \in RenderableEntries :
                    Contents[m].filename = Contents[j].filename => m <= j)
                   => CallArgs(Contents[j]) \in files

C3_Witness ==
    /\ pc = "done" /\ AllSucceeded
    /\ Cardinality(NamedEntries) = 2
    /\ Cardinality(RenderableEntries) = 1
    /\ Cardinality(files) = 1

(* C4: when the source image or the manifest file does not exist the run
   prints one descriptive error and returns, before any manifest entry is
   processed, with no resize invocation and no file written. *)
C4_PreconditionsFailFast ==
    ~sourceExists \/ manifestFile = "missing" =>
        /\ calls = <<>> /\ files = {} /\ cur = NoArgs
        /\ pc \in {"check_source", "check_manifest", "returned"}
        /\ pc = "returned" =>
               stdout = <<IF ~sourceExists THEN SourceNotFoundLine
                          ELSE ManifestNotFoundLine>>
        /\ pc = "check_manifest" => sourceExists

C4_Witness ==
    /\ pc = "returned" /\ ~sourceExists /\ run = MaxRuns
    /\ \E j \in 1..Len(images) : WellFormed(images[j])

(* C5: a manifest that cannot be parsed, or that parses but lacks the
   "images" key, is a fatal error before any variant is attempted: the run
   never prints the processing or completion line and never ends normally. *)
C5_MalformedManifestIsFatal ==
    manifestFile \in {"unparseable", "no images key"} =>
        /\ pc # "done"
        /\ \A l \in 1..Len(stdout) : stdout[l] \notin {ProcessingLine, CompleteLine}

(* C6: an entry whose size or scale string is malformed is skipped: no
   resize is invoked for it, the run does not abort, and every later
   well-formed entry is still processed. *)
C6_MalformedEntrySkipped ==
    \A j \in Indices :
        Renderable(Contents[j]) /\ ~WellFormed(Contents[j]) =>
            /\ ~Called(j)
            /\ ~(pc = "crashed" /\ exc = "ValueError" /\ i = j)
            /\ pc = "done" =>
                   \A m \in Indices : m > j /\ WellFormed(Contents[m]) => Called(m)

(* C7: an entry that has size and scale but no filename (absent or empty)
   causes no resize invocation, no file and no printed line, and the loop
   goes on to the next entry. *)
C7_NoFilenameSkipped ==
    /\ [](\A j \in Indices :
             ~HasFilename(j) =>
                 /\ ~Called(j)
                 /\ Len(PerItemLines) <= Len(calls)
                 /\ ~(pc \in {"sips", "crashed"} /\ PastPreconditions /\ i = j))
    /\ [][pc = "loop" /\ i <= Len(Contents) /\ ~HasFilename(i) =>
              /\ pc' = "loop" /\ i' = i + 1
              /\ UNCHANGED <<stdout, calls, files, exc>>]_vars

C7_Witness ==
    /\ pc = "done"
    /\ \E j \in Indices :
           /\ ~HasFilename(j) /\ "filename" \in DOMAIN Contents[j]
           /\ Present(Contents[j], "size") /\ Present(Contents[j], "scale")
           /\ Called(j + 1)

(* C8: in every run that passes the preconditions the resize invocations
   happen in manifest order, one at a time, each renderable entry exactly
   once; the per-item lines are in the same order and the completion notice
   comes only after the last entry. *)
C8_EachRenderableOnceInOrder ==
    /\ \A k, m \in 1..Len(calls) : k < m => calls[k].index < calls[m].index
    /\ pc = "sips" => \A k \in 1..Len(calls) : calls[k].index < i
    /\ \A l \in 1..Len(stdout) : stdout[l] = CompleteLine => i > Len(Contents)
    /\ Terminated /\ PastPreconditions =>
           /\ \A j \in Indices : WellFormed(Contents[j]) => Called(j)
           /\ Len(PerItemLines) = Len(calls)
           /\ \A k \in 1..Len(calls) : PerItemLines[k].dest = calls[k].args.dest

(* C9: with a deterministic tool, a run on an unchanged manifest and source
   leaves the same files in DEST_DIR and prints the same outcomes as the
   run before it; existing files are overwritten. *)
C9_Idempotent ==
    deterministic /\ run > 1 /\ Terminated =>
        /\ files = prevFiles
        /\ stdout = prevStdout

C9_Witness ==
    /\ deterministic /\ run > 1 /\ pc = "done"
    /\ Cardinality(files) = 1 /\ files = prevFiles
    /\ \E k \in 1..Len(calls) : IsFailed(calls[k])

(* C10 as stated: the run ends with a summary that gives the number of
   generated and the number of failed variants. *)
HasCounts(line) == {"generated", "failed"} \subseteq DOMAIN line
====
